---- MODULE Spec2Model ----
(***************************************************************************)
(* Model of the Katana look-file publish plugin                            *)
(* (hooks/tk-multi-publish2/basic/publish_lookfiles.py): the accept,       *)
(* validate and publish handlers of KatanaLookFilePublishPlugin, the       *)
(* settings object and item.properties they share, and the collaborators   *)
(* they call (node parameters, template registry, path enumerator, disk).  *)
(***************************************************************************)
EXTENDS Integers, Sequences, FiniteSets, TLC

\* ------------------------------------------------------------------ bounds

\* Largest number of paths the path enumerator returns for one template.
MaxPaths == 2

\* Version numbers of the look files of the node. 10 is the first version
\* whose decimal form is longer than that of the versions before it.
Versions == {1, 2, 3, 10}

\* Minimum digit counts a template's version key may be configured with
\* (format_spec "01" and "03").
FormatWidths == {1, 3}

\* The one item (and node) the publisher hands to the plugin.
ItemName == "LookFileBake"

\* ------------------------------------------------------------------ strings
\* A Python str is a sequence of one-character strings.

DigitChars == <<"0", "1", "2", "3", "4", "5", "6", "7", "8", "9">>

\* ord(c) for the characters that occur in the paths of the model.
Ord(c) ==
    CASE c = "." -> 46
      [] c = "p" -> 112
      [] c = "w" -> 119
      [] c = "x" -> 120
      [] OTHER -> 47 + (CHOOSE i \in 1..10 : DigitChars[i] = c)

IsDigit(c) == \E i \in 1..10 : DigitChars[i] = c

\* Python's str < str: the first differing character decides, a proper
\* prefix is smaller.
RECURSIVE StrLess(_, _)
StrLess(a, b) ==
    IF b = << >> THEN FALSE
    ELSE IF a = << >> THEN TRUE
    ELSE IF Head(a) # Head(b) THEN Ord(Head(a)) < Ord(Head(b))
    ELSE StrLess(Tail(a), Tail(b))

\* str(n) for n >= 0.
RECURSIVE Digits(_)
Digits(n) ==
    IF n < 10 THEN <<DigitChars[n + 1]>>
    ELSE Digits(n \div 10) \o <<DigitChars[(n % 10) + 1]>>

\* s.zfill(w): zeros on the left up to w characters, never a truncation.
RECURSIVE ZFill(_, _)
ZFill(s, w) == IF Len(s) >= w THEN s ELSE ZFill(<<"0">> \o s, w)

\* int(s) for a string of digits.
RECURSIVE ParseInt(_)
ParseInt(s) ==
    IF s = << >> THEN 0
    ELSE 10 * ParseInt(SubSeq(s, 1, Len(s) - 1))
         + (Ord(s[Len(s)]) - 48)

\* ------------------------------------------------------------------ templates
\* A template object: its name, the character its paths start with, and the
\* minimum width of its version key. None is the record NoTemplate.

NoTemplate == [name |-> "None", prefix |-> "", width |-> 0]

\* `if not template`
IsNone(template) == template = NoTemplate

\* The key of the version field in a field set.
VersionKey == <<"version">>

\* {} (and None: the code only ever tests `not fields`).
EmptyDict == [k \in {} |-> 0]

\* template.apply_fields(fields)
apply_fields(template, fields) ==
    <<template.prefix>> \o ZFill(Digits(fields[VersionKey]), template.width) \o <<".">>

\* The version digits of a path.
Middle(path) == SubSeq(path, 2, Len(path) - 1)

\* template.validate(path)
template_validate(template, path) ==
    /\ Len(path) >= 3
    /\ path[1] = template.prefix
    /\ path[Len(path)] = "."
    /\ \A i \in 2..(Len(path) - 1) : IsDigit(path[i])
    /\ apply_fields(template, (VersionKey :> ParseInt(Middle(path)))) = path

\* template.get_fields(path), for a path of the template
get_fields(template, path) == (VersionKey :> ParseInt(Middle(path)))

\* template.validate_and_get_fields(path)
validate_and_get_fields(template, path) ==
    IF template_validate(template, path) THEN get_fields(template, path) ELSE EmptyDict

\* ------------------------------------------------------------------ lists

\* sorted(paths, reverse=True): insertion of each path before the first entry
\* that is not greater than it.
RECURSIVE InsertDescending(_, _)
InsertDescending(x, s) ==
    IF s = << >> THEN <<x>>
    ELSE IF StrLess(Head(s), x) THEN <<x>> \o s
    ELSE <<Head(s)>> \o InsertDescending(x, Tail(s))

RECURSIVE sorted_reverse(_)
sorted_reverse(paths) ==
    IF paths = << >> THEN << >>
    ELSE InsertDescending(Head(paths), sorted_reverse(Tail(paths)))

\* list.remove(x): drops the first occurrence of x.
RECURSIVE list_remove(_, _)
list_remove(s, x) ==
    IF s = << >> THEN << >>
    ELSE IF Head(s) = x THEN Tail(s)
    ELSE <<Head(s)>> \o list_remove(Tail(s), x)

Range(s) == {s[i] : i \in 1..Len(s)}

\* The lists a set of paths can be returned as (list(set) has no fixed order).
Orderings(S) ==
    {s \in [1..Cardinality(S) -> S] : Range(s) = S}

\* ------------------------------------------------------------------ state

VARIABLES
    templates,   \* the template registry: template name -> template object
    node,        \* the node's parameters sg_saveTo, sg_work_template, sg_publish_template
    disk,        \* the paths that exist on disk (os.path.exists)
    enumerated,  \* what the path enumerator returns now: [work, publish] sets of paths
    settings,    \* the settings object: [node, node_settings]
    properties,  \* item.properties: key -> value, only the keys that are set
    task,        \* the publisher's view of the item's task
    result,      \* the outcome of the last handler call
    contents,    \* LookFilePublishWidget.__contents: node name -> the combo box of its item widget
    displayed,   \* LookFilePublishWidget.__displayed: the node names of the widgets shown
    ui_returned, \* what the last get_ui_settings() returned
    supplied,    \* node name -> the data set_ui_settings() last brought for the node
    chosen,      \* node name -> the path the operator picked since then
    get_fields_calls \* the most calls of publish_template.get_fields the last accept() made for one publish path

\* The state of the settings widget and of what went into and came out of it.
ui == <<contents, displayed, ui_returned, supplied, chosen>>

vars == <<templates, node, disk, enumerated, settings, properties, task, result, contents, displayed, ui_returned, supplied, chosen, get_fields_calls>>

WorkTemplateName == "katana_lookfile_work"
PublishTemplateName == "katana_lookfile_publish"
MissingTemplateName == "not_in_config"

WorkTemplate(w) == [name |-> WorkTemplateName, prefix |-> "w", width |-> w]
PublishTemplate(w) == [name |-> PublishTemplateName, prefix |-> "p", width |-> w]

\* A save path the work template rejects.
BadPath == <<"x">>

FieldsOf(v) == (VersionKey :> v)

\* The paths of a template over the versions of the model.
PathsOf(template) == {apply_fields(template, FieldsOf(v)) : v \in Versions}

\* engine.get_template_by_name(template_name): None for an unknown name.
_get_template(template_name) ==
    IF template_name \in DOMAIN templates THEN templates[template_name] ELSE NoTemplate

\* _get_item_settings(settings): all_settings.get(node, {})
_get_item_settings(s) ==
    IF s.node \in DOMAIN s.node_settings THEN s.node_settings[s.node] ELSE EmptyDict

\* _set_item_settings that extends the work paths already stored for the node.
_set_item_settings_extending(item_settings, s) ==
    [s EXCEPT !.node_settings =
        [n \in (DOMAIN s.node_settings) \cup {s.node} |->
            IF n # s.node THEN s.node_settings[n]
            ELSE IF n \in DOMAIN s.node_settings
            THEN [item_settings EXCEPT
                    !.work_paths = s.node_settings[n].work_paths \o @]
            ELSE item_settings]]

\* _set_item_settings(node_settings, settings): all_settings[node] = node_settings
_set_item_settings(item_settings, s) ==
    [s EXCEPT !.node_settings =
        [n \in (DOMAIN s.node_settings) \cup {s.node} |->
            IF n = s.node THEN item_settings ELSE s.node_settings[n]]]

\* item.properties[key] = value
SetProperty(props, key, value) ==
    [k \in (DOMAIN props) \cup {key} |-> IF k = key THEN value ELSE props[k]]

\* What a handler call leaves in `result`.
Outcome(call, raised, returned, message, touched, candidates) ==
    [call |-> call, raised |-> raised, returned |-> returned, message |-> message,
     touched |-> touched, candidates |-> candidates, copied_onto_existing |-> FALSE]

NoOutcome == Outcome("none", "none", "none", "", {}, << >>)

\* ------------------------------------------------------------------ accept

\* Line 315 without the os.path.exists test.
already_published_any(publish_path, publish_fields, work_fields) ==
    publish_fields[VersionKey] = work_fields[VersionKey]

\* Line 315: the publish file is on disk and carries the work file's version.
already_published(publish_path, publish_fields, work_fields) ==
    /\ publish_path \in disk
    /\ publish_fields[VersionKey] = work_fields[VersionKey]

\* Line 312: the path is no key of the dict `publish_fields` is bound to.
cache_miss(publish_fields, publish_path) == publish_path \notin DOMAIN publish_fields

\* How often each path stands in a list of the paths get_fields was called with.
count_calls(calls) ==
    [p \in Range(calls) |-> Cardinality({i \in DOMAIN calls : calls[i] = p})]

\* The most calls any one path got, 0 for no call at all.
most_calls(calls) ==
    LET counts == count_calls(calls)
    IN IF calls = << >> THEN 0
       ELSE CHOOSE n \in {counts[p] : p \in DOMAIN counts} :
                \A p \in DOMAIN counts : counts[p] <= n

\* Lines 312-314 for one publish path: `publish_fields` is the dict the name
\* is bound to when the iteration starts. The fields of the path are stored
\* in that dict under the path unless the path is a key of it already, and the
\* name is then rebound to the entry.
rebind_publish_fields(publish_template, publish_fields, publish_path) ==
    LET cache == IF cache_miss(publish_fields, publish_path)
                 THEN publish_fields @@ (publish_path :> get_fields(publish_template, publish_path))
                 ELSE publish_fields
    IN cache[publish_path]

\* Lines 310-319: the inner loop for one work path, from the dict
\* `publish_fields` is bound to. Stops at the first publish path that
\* publishes the work path.
RECURSIVE publish_loop(_, _, _, _, _)
publish_loop(publish_template, work_fields, publish_paths, publish_fields, calls) ==
    IF publish_paths = << >>
    THEN [published |-> FALSE, publish_fields |-> publish_fields, calls |-> calls]
    ELSE LET publish_path == Head(publish_paths)
             bound == rebind_publish_fields(publish_template, publish_fields, publish_path)
             called == IF cache_miss(publish_fields, publish_path)
                       THEN Append(calls, publish_path)
                       ELSE calls
         IN IF already_published(publish_path, bound, work_fields)
            THEN [published |-> TRUE, publish_fields |-> bound, calls |-> called]
            ELSE publish_loop(publish_template, work_fields, Tail(publish_paths), bound, called)

\* Lines 307-319: the outer loop over the work paths still to visit.
RECURSIVE work_loop(_, _, _, _, _, _, _)
work_loop(work_template, publish_template, work_paths, publish_paths, work_paths_to_publish, publish_fields, calls) ==
    IF work_paths = << >>
    THEN [work_paths_to_publish |-> work_paths_to_publish, calls |-> calls]
    ELSE LET work_path == Head(work_paths)
             work_fields == get_fields(work_template, work_path)
             inner == publish_loop(publish_template, work_fields, publish_paths, publish_fields, calls)
         IN work_loop(work_template, publish_template, Tail(work_paths), publish_paths,
                      IF inner.published
                      THEN list_remove(work_paths_to_publish, work_path)
                      ELSE work_paths_to_publish,
                      inner.publish_fields, inner.calls)

\* Lines 305-319: the loops from the sorted list and the empty dict.
compare_paths(work_template, publish_template, work_paths, publish_paths) ==
    work_loop(work_template, publish_template, work_paths, publish_paths,
              sorted_reverse(work_paths), EmptyDict, << >>)

\* Lines 305-319: the work paths no publish file on disk covers.
unpublished_work_paths(work_template, publish_template, work_paths, publish_paths) ==
    compare_paths(work_template, publish_template, work_paths, publish_paths).work_paths_to_publish

\* The calls of publish_template.get_fields an accept() makes: none when it
\* returns or fails before its loops.
get_fields_log(work_paths, publish_paths) ==
    LET work_template == _get_template(node.sg_work_template)
        publish_template == _get_template(node.sg_publish_template)
    IN IF \/ IsNone(work_template)
          \/ validate_and_get_fields(work_template, node.sg_saveTo) = EmptyDict
          \/ work_paths = << >>
          \/ IsNone(publish_template)
       THEN << >>
       ELSE compare_paths(work_template, publish_template, work_paths, publish_paths).calls

\* Lines 327-330.
settings_dict(work_paths_to_publish) ==
    [work_paths |-> work_paths_to_publish, to_publish |-> work_paths_to_publish[1]]

\* The collaborator calls of accept() that concern the publish template.
ReadPublishParam == "getParameter(sg_publish_template)"
LookupPublish == "get_template_by_name(publish)"
EnumeratePublish == "abstract_paths_from_template(publish)"

\* Lines 285-289 with the publish template looked up before the path is tested.
not_a_valid_path_eager(s1, p1) ==
    [settings |-> s1,
     properties |-> SetProperty(p1, "publish_template",
                                _get_template(node.sg_publish_template)),
     result |-> Outcome("accept", "none", "rejected, hidden", "is not a valid path",
                        {ReadPublishParam, LookupPublish}, << >>)]

\* Lines 285-289: the save path is not a path of the work template.
not_a_valid_path(s1, p1) ==
    [settings |-> s1, properties |-> p1,
     result |-> Outcome("accept", "none", "rejected, hidden", "is not a valid path",
                        {}, << >>)]

\* accept(settings, item), lines 274-336, with the lists the path enumerator
\* returns for the work and the publish template: the values it leaves in
\* settings, item.properties and as its outcome.
accept_run(work_paths, publish_paths) ==
    LET s1 == [settings EXCEPT !.node = ItemName]
        path == node.sg_saveTo
        work_template == _get_template(node.sg_work_template)
        p1 == SetProperty(SetProperty(properties, "path", path),
                          "work_template", work_template)
        fields == IF IsNone(work_template) THEN EmptyDict
                  ELSE validate_and_get_fields(work_template, path)
        publish_template == _get_template(node.sg_publish_template)
        p2 == SetProperty(p1, "publish_template", publish_template)
        work_paths_to_publish ==
            unpublished_work_paths(work_template, publish_template, work_paths, publish_paths)
        rejected(message, props, touched) ==
            [settings |-> s1, properties |-> props,
             result |-> Outcome("accept", "none", "rejected", message, touched, << >>)]
    IN
    IF IsNone(work_template)
    THEN \* line 284: None has no validate_and_get_fields
         [settings |-> s1, properties |-> p1,
          result |-> Outcome("accept", "AttributeError", "none", "", {}, << >>)]
    ELSE IF fields = EmptyDict
    THEN not_a_valid_path(s1, p1)
    ELSE IF work_paths = << >>
    THEN rejected("No generated work files", p1, {})
    ELSE IF IsNone(publish_template)
    THEN \* line 303: the enumerator reads the keys of None
         [settings |-> s1, properties |-> p2,
          result |-> Outcome("accept", "AttributeError", "none", "",
                             {ReadPublishParam, LookupPublish, EnumeratePublish}, << >>)]
    ELSE IF work_paths_to_publish = << >>
    THEN rejected("All versions published", p2,
                  {ReadPublishParam, LookupPublish, EnumeratePublish})
    ELSE [settings |-> _set_item_settings(settings_dict(work_paths_to_publish), s1),
          properties |-> p2,
          result |-> Outcome("accept", "none", "accepted", "",
                             {ReadPublishParam, LookupPublish, EnumeratePublish},
                             work_paths_to_publish)]

\* The publisher's task for the item after a call of accept().
task_after_accept(outcome) ==
    IF outcome.returned = "accepted" THEN "accepted" ELSE "none"

\* accept() is called for the item; the path enumerator answers with the work
\* and publish paths it knows, in an order of its own.
accept ==
    \E work_paths \in Orderings(enumerated.work),
       publish_paths \in Orderings(enumerated.publish) :
        LET run == accept_run(work_paths, publish_paths)
        IN /\ settings' = run.settings
           /\ properties' = run.properties
           /\ result' = run.result
           /\ task' = task_after_accept(run.result)
           /\ get_fields_calls' = most_calls(get_fields_log(work_paths, publish_paths))
           /\ UNCHANGED <<templates, node, disk, enumerated>>
           /\ UNCHANGED ui

\* ------------------------------------------------------------------ validate

\* Line 370 without the test.
still_on_disk_unchecked(path) == TRUE

\* Line 370: os.path.exists(path)
still_on_disk(path) == path \in disk

\* Line 380: os.path.exists(publish_path)
already_copied(publish_path) == publish_path \in disk

\* Lines 378-379 without the publish path.
validated_properties_without_publish_path(props, publish_path, path) ==
    SetProperty(props, "path", path)

\* Lines 378-379: item.properties["publish_path"] and ["path"].
validated_properties(props, publish_path, path) ==
    SetProperty(SetProperty(props, "publish_path", publish_path), "path", path)

\* validate(settings, item), lines 360-383: the values it leaves in
\* item.properties and its outcome. It does not write to settings.
validate_run ==
    LET item_settings == _get_item_settings(settings)
        raise(error, message, props) ==
            [properties |-> props,
             result |-> Outcome("validate", error, "none", message, {}, << >>)]
    IN
    IF "work_template" \notin DOMAIN properties
    THEN raise("KeyError", "work_template", properties)
    ELSE IF IsNone(properties["work_template"])
    THEN \* line 364: the message reads the name of None
         raise("AttributeError", "", properties)
    ELSE IF "publish_template" \notin DOMAIN properties
    THEN raise("KeyError", "publish_template", properties)
    ELSE IF IsNone(properties["publish_template"])
    THEN \* line 367: the message reads the name of None
         raise("AttributeError", "", properties)
    ELSE IF "to_publish" \notin DOMAIN item_settings
    THEN raise("KeyError", "to_publish", properties)
    ELSE LET work_template == properties["work_template"]
             publish_template == properties["publish_template"]
             path == item_settings["to_publish"]
             fields == validate_and_get_fields(work_template, path)
             publish_path == apply_fields(publish_template, fields)
             updated == validated_properties(properties, publish_path, path)
         IN IF ~still_on_disk(path)
            THEN raise("TankError", "no longer exists on disk", properties)
            ELSE IF ~template_validate(work_template, path)
            THEN raise("TankError", "does not match the template", properties)
            ELSE IF already_copied(publish_path)
            THEN raise("IOError", "has already been copied to the publish location", updated)
            ELSE [properties |-> updated,
                  result |-> Outcome("validate", "none", "True", "", {}, << >>)]

\* The publisher's task for the item after a call of validate(): a failed
\* validation takes a validated task back.
task_after_validate(outcome) ==
    IF outcome.returned = "True" THEN "validated"
    ELSE IF task = "validated" THEN "accepted"
    ELSE task

validate ==
    LET run == validate_run
    IN /\ properties' = run.properties
       /\ result' = run.result
       /\ task' = task_after_validate(run.result)
       /\ UNCHANGED <<templates, node, disk, enumerated, settings>>
       /\ UNCHANGED <<ui, get_fields_calls>>

\* ------------------------------------------------------------------ publish

PublishType == "Katana Look File"

\* super().publish(settings, item), line 403: the base publisher copies the
\* work file item.properties["path"] to item.properties["publish_path"]
\* (an existing destination is overwritten) and fails when the source is gone.
base_publish(props) ==
    IF props["path"] \notin disk
    THEN [disk |-> disk,
          result |-> Outcome("publish", "Exception", "none", "Failed to copy work file",
                             {}, << >>)]
    ELSE [disk |-> disk \cup {props["publish_path"]},
          result |-> [Outcome("publish", "none", "None", "", {}, << >>)
                        EXCEPT !.copied_onto_existing = props["publish_path"] \in disk]]

\* publish(settings, item), lines 394-403.
publish_run ==
    IF "publish_path" \notin DOMAIN properties
    THEN [properties |-> properties, disk |-> disk,
          result |-> Outcome("publish", "KeyError", "none", "publish_path", {}, << >>)]
    ELSE LET props == SetProperty(properties, "publish_type", PublishType)
             base == base_publish(props)
         IN [properties |-> props, disk |-> base.disk, result |-> base.result]

task_after_publish(outcome) ==
    IF outcome.raised = "none" THEN "published" ELSE task

\* The path enumerator finds the files that are on disk.
Glob(files, template) == {p \in files : template_validate(template, p)}

publish ==
    LET run == publish_run
    IN /\ properties' = run.properties
       /\ disk' = run.disk
       /\ enumerated' = [enumerated EXCEPT
                           !.publish = @ \cup Glob(run.disk \ disk, templates[PublishTemplateName])]
       /\ result' = run.result
       /\ task' = task_after_publish(run.result)
       /\ UNCHANGED <<templates, node, settings>>
       /\ UNCHANGED <<ui, get_fields_calls>>

\* ------------------------------------------------------------------ environment

\* Another publisher copies a version of the node's look file to the publish
\* location.
ExternalPublish ==
    /\ Cardinality(enumerated.publish) < MaxPaths
    /\ \E p \in PathsOf(templates[PublishTemplateName]) \ disk :
          /\ disk' = disk \cup {p}
          /\ enumerated' = [enumerated EXCEPT !.publish = @ \cup {p}]
    /\ UNCHANGED <<templates, node, settings, properties, task, result>>
    /\ UNCHANGED <<ui, get_fields_calls>>

\* The operator deletes a work file.
ExternalDelete ==
    /\ \E p \in Glob(disk, templates[WorkTemplateName]) :
          /\ disk' = disk \ {p}
          /\ enumerated' = [enumerated EXCEPT !.work = @ \ {p}]
    /\ UNCHANGED <<templates, node, settings, properties, task, result>>
    /\ UNCHANGED <<ui, get_fields_calls>>

\* ------------------------------------------------------------------ settings widget

\* None, where a path is expected.
NoneValue == <<"None">>

\* os.path.basename(path): what follows the last "/".
RECURSIVE basename(_)
basename(path) ==
    IF \E i \in 1..Len(path) : path[i] = "/"
    THEN basename(Tail(path))
    ELSE path

\* A QComboBox: its items (text, userData) and its current index, counted
\* from 0; -1 is no current item.
EmptyCombo == [items |-> << >>, currentIndex |-> -1]

\* QComboBox.addItem(text, userData): the first item of an empty box becomes
\* the current one.
combo_addItem(combo, text, userData) ==
    [items |-> Append(combo.items, [text |-> text, userData |-> userData]),
     currentIndex |-> IF combo.items = << >> THEN 0 ELSE combo.currentIndex]

\* QComboBox.findText(text): the index of the first item with the text, or -1.
combo_findText(combo, text) ==
    IF \E i \in 1..Len(combo.items) : combo.items[i].text = text
    THEN (CHOOSE i \in 1..Len(combo.items) :
              /\ combo.items[i].text = text
              /\ \A j \in 1..(i - 1) : combo.items[j].text # text) - 1
    ELSE -1

\* QComboBox.setCurrentIndex(index): an index that is no item's clears the
\* current item.
combo_setCurrentIndex(combo, index) ==
    [combo EXCEPT !.currentIndex =
        IF index >= 0 /\ index < Len(combo.items) THEN index ELSE -1]

\* QComboBox.itemData(index): None for an index that is no item's.
combo_itemData(combo, index) ==
    IF index >= 0 /\ index < Len(combo.items)
    THEN combo.items[index + 1].userData
    ELSE NoneValue

\* data.get(key, default)
dict_get(data, key, default) == IF key \in DOMAIN data THEN data[key] ELSE default

\* Lines 58-60: one combo item per work path, its base name as the text.
RECURSIVE add_work_paths(_, _)
add_work_paths(combo, work_paths) ==
    IF work_paths = << >> THEN combo
    ELSE add_work_paths(combo_addItem(combo, basename(Head(work_paths)), Head(work_paths)),
                        Tail(work_paths))

\* LookFilePublishWidgetItem._populate(combo, data), lines 57-63.
_populate(combo, data) ==
    LET filled == add_work_paths(combo, dict_get(data, "work_paths", << >>))
        index == combo_findText(filled, basename(dict_get(data, "to_publish", << >>)))
    IN IF index # 0 THEN combo_setCurrentIndex(filled, index) ELSE filled

\* LookFilePublishWidgetItem.getData(), lines 71-82: the value stored under
\* the node's name.
RECURSIVE item_paths(_, _)
item_paths(combo, index) ==
    IF index >= Len(combo.items) THEN << >>
    ELSE <<combo_itemData(combo, index)>> \o item_paths(combo, index + 1)

item_getData(combo) ==
    [work_paths |-> item_paths(combo, 0),
     to_publish |-> combo_itemData(combo, combo.currentIndex)]

\* LookFilePublishWidget.addItem(name, data), lines 122-129: the item widgets
\* and the displayed list after it, from those before it.
widget_addItem(w, name, data) ==
    [contents |-> IF name \in DOMAIN w.contents THEN w.contents
                  ELSE w.contents @@ (name :> _populate(EmptyCombo, data)),
     displayed |-> Append(w.displayed, name)]

\* LookFilePublishWidget.getData(), lines 135-138.
widget_getData ==
    [n \in Range(displayed) |-> item_getData(contents[n])]

\* set_ui_settings(widget, settings), lines 485-489, after widget.clear().
RECURSIVE add_settings(_, _)
add_settings(w, settings_list) ==
    IF settings_list = << >> THEN w
    ELSE LET setting == Head(settings_list)
             node_name == setting.node
             data == dict_get(setting.node_settings, node_name, EmptyDict)
         IN add_settings(widget_addItem(w, node_name, data), Tail(settings_list))

\* The node names of the tasks the operator selects.
UINodes == {ItemName}

\* Work paths as the settings bring them: two of them have the same file name
\* in different version folders.
UIPaths == {<<"a", "/", "k">>, <<"b", "/", "k">>, <<"a", "/", "m">>}

UpTo(S, n) == {T \in SUBSET S : Cardinality(T) <= n}

\* The lists of distinct paths of at most MaxPaths entries.
UIWorkPaths ==
    UNION {Orderings(S) : S \in UpTo(UIPaths, MaxPaths)}

\* What a task's node_settings hold for its node: nothing, or a list of work
\* paths and one of them as to_publish.
UIData ==
    {EmptyDict} \cup
    {[work_paths |-> l, to_publish |-> l[i]] : <<l, i>> \in
        {<<l, i>> \in UIWorkPaths \X (1..MaxPaths) : i <= Len(l)}}

\* The settings of the selected tasks: one task per node.
UISettings ==
    UNION {{[i \in 1..Len(names) |->
               [node |-> names[i], node_settings |-> (names[i] :> d[names[i]])]] :
            d \in [Range(names) -> UIData]} :
           names \in UNION {Orderings(N) : N \in SUBSET UINodes}}

\* The settings the calls of set_ui_settings() bring.
supplied_after(prev, settings_list) ==
    [n \in (DOMAIN prev) \cup {settings_list[i].node : i \in 1..Len(settings_list)} |->
        IF \E i \in 1..Len(settings_list) : settings_list[i].node = n
        THEN LET setting == CHOOSE x \in Range(settings_list) : x.node = n
             IN dict_get(setting.node_settings, n, EmptyDict)
        ELSE prev[n]]

\* set_ui_settings(widget, settings), lines 484-489.
set_ui_settings ==
    \E settings_list \in UISettings :
        LET cleared == [contents |-> contents, displayed |-> << >>]
            w == add_settings(cleared, settings_list)
        IN /\ contents' = w.contents
           /\ displayed' = w.displayed
           /\ supplied' = supplied_after(supplied, settings_list)
           /\ chosen' = [n \in DOMAIN supplied' |->
                            IF n \in DOMAIN chosen /\ n \notin Range(w.displayed)
                            THEN chosen[n] ELSE NoneValue]
           /\ UNCHANGED <<templates, node, disk, enumerated, settings, properties, task, result, get_fields_calls>>
           /\ UNCHANGED ui_returned

\* get_ui_settings(widget), line 443.
get_ui_settings ==
    /\ ui_returned' = [called |-> TRUE, node_settings |-> widget_getData]
    /\ UNCHANGED <<templates, node, disk, enumerated, settings, properties, task, result, get_fields_calls>>
    /\ UNCHANGED <<contents, displayed, supplied, chosen>>

\* The operator picks an entry of the drop-down of a displayed node.
OperatorSelects ==
    \E n \in Range(displayed) :
        \E index \in 0..(Len(contents[n].items) - 1) :
            /\ contents' = [contents EXCEPT ![n] = combo_setCurrentIndex(@, index)]
            /\ chosen' = [chosen EXCEPT ![n] = combo_itemData(contents[n], index)]
            /\ UNCHANGED <<templates, node, disk, enumerated, settings, properties, task, result, get_fields_calls>>
            /\ UNCHANGED <<displayed, ui_returned, supplied>>

\* The widget create_settings_widget() returns: no item widgets, nothing
\* displayed.
NoWidgetItems ==
    /\ contents = EmptyDict
    /\ displayed = << >>
    /\ ui_returned = [called |-> FALSE, node_settings |-> EmptyDict]
    /\ supplied = EmptyDict
    /\ chosen = EmptyDict

\* ------------------------------------------------------------------ set-up

\* The node parameters: the save path is a work path or not, and each
\* template name is in the configuration or not.
NodeParameters(w) ==
    [sg_saveTo : {apply_fields(WorkTemplate(w), FieldsOf(1)), BadPath},
     sg_work_template : {WorkTemplateName, MissingTemplateName},
     sg_publish_template : {PublishTemplateName, MissingTemplateName}]

Registry(w) ==
    (WorkTemplateName :> WorkTemplate(w)) @@ (PublishTemplateName :> PublishTemplate(w))

DefaultSettings == [node |-> "", node_settings |-> EmptyDict]

\* Fresh settings and item, for any configuration, node and set of files; the
\* enumerator's answer may be out of date with respect to the disk.
InitAccept ==
    \E w \in FormatWidths :
        /\ templates = Registry(w)
        /\ node \in NodeParameters(w)
        /\ enumerated \in [work : UpTo(PathsOf(WorkTemplate(w)), MaxPaths),
                           publish : UpTo(PathsOf(PublishTemplate(w)), MaxPaths)]
        /\ \E published \in SUBSET PathsOf(PublishTemplate(w)) :
              disk = enumerated.work \cup published
        /\ settings = DefaultSettings
        /\ properties = EmptyDict
        /\ task = "none"
        /\ result = NoOutcome
        /\ get_fields_calls = 0
        /\ NoWidgetItems

NextAccept == accept

SpecAccept == InitAccept /\ [][NextAccept]_vars

\* An interactive session: fresh settings and item, the enumerator sees the
\* files on disk.
Init ==
    \E w \in FormatWidths :
        /\ templates = Registry(w)
        /\ node \in NodeParameters(w)
        /\ enumerated \in [work : UpTo(PathsOf(WorkTemplate(w)), MaxPaths),
                           publish : UpTo(PathsOf(PublishTemplate(w)), MaxPaths)]
        /\ disk = enumerated.work \cup enumerated.publish
        /\ settings = DefaultSettings
        /\ properties = EmptyDict
        /\ task = "none"
        /\ result = NoOutcome
        /\ get_fields_calls = 0
        /\ NoWidgetItems

\* The publisher validates the tasks of accepted items, and publishes a task
\* whose validation passed.
ValidateTask == task \in {"accepted", "validated"} /\ validate

PublishTask == task = "validated" /\ publish

Next ==
    \/ accept
    \/ ValidateTask
    \/ PublishTask
    \/ ExternalPublish
    \/ ExternalDelete

Spec == Init /\ [][Next]_vars

\* The operator works with the settings widget of the plugin: the publisher
\* brings the settings of the selected tasks, the operator picks versions, the
\* publisher reads the widget.
InitUI ==
    /\ templates = Registry(3)
    /\ node = [sg_saveTo |-> BadPath, sg_work_template |-> WorkTemplateName,
               sg_publish_template |-> PublishTemplateName]
    /\ enumerated = [work |-> {}, publish |-> {}]
    /\ disk = {}
    /\ settings = DefaultSettings
    /\ properties = EmptyDict
    /\ task = "none"
    /\ result = NoOutcome
    /\ get_fields_calls = 0
    /\ NoWidgetItems

NextUI ==
    \/ set_ui_settings
    \/ OperatorSelects
    \/ get_ui_settings

SpecUI == InitUI /\ [][NextUI]_vars

\* The three handlers called in any order, whatever the earlier calls
\* returned.
NextAnyOrder ==
    \/ accept
    \/ validate
    \/ publish

SpecAnyOrder == Init /\ [][NextAnyOrder]_vars

\* ------------------------------------------------------------------ claims

PathVersion(path) == ParseInt(Middle(path))

\* The last call was an accept() that ran its loops over the enumerated paths.
AcceptCompared ==
    /\ result.call = "accept"
    /\ result.raised = "none"
    /\ EnumeratePublish \in result.touched

\* Some enumerated publish path is on disk and has the work path's version.
HasPublishOnDisk(work_path) ==
    \E p \in enumerated.publish :
        p \in disk /\ PathVersion(p) = PathVersion(work_path)

Unpublished == {w \in enumerated.work : ~HasPublishOnDisk(w)}

\* C1: accept() removes an enumerated work path from the candidate list if and
\* only if some enumerated publish path is on disk and has the work path's
\* version; every other enumerated work path, and nothing else, is a candidate.
C1_RemovedIffPublished ==
    AcceptCompared =>
        /\ Range(result.candidates) = Unpublished
        /\ Len(result.candidates) = Cardinality(Unpublished)

\* An accept() that removed a work path, and kept one although a publish path
\* of its version is enumerated (but not on disk) and a publish path of
\* another version is on disk.
C1_Witness ==
    /\ AcceptCompared
    /\ \E w \in enumerated.work : w \notin Range(result.candidates)
    /\ \E w \in Range(result.candidates) :
          /\ \E p \in enumerated.publish : p \notin disk /\ PathVersion(p) = PathVersion(w)
          /\ \E p \in enumerated.publish : p \in disk /\ PathVersion(p) # PathVersion(w)

Accepted == result.call = "accept" /\ result.returned = "accepted"

StoredSettings == settings.node_settings[ItemName]

\* C2: in the work_paths list accept() stores, a work path of a higher version
\* stands before every work path of a lower version.
C2_HighestVersionFirst ==
    Accepted =>
        \A i, j \in 1..Len(StoredSettings.work_paths) :
            PathVersion(StoredSettings.work_paths[i]) > PathVersion(StoredSettings.work_paths[j])
                => i < j

\* The save path is a path of the work template the node names.
SavePathValid ==
    /\ ~IsNone(_get_template(node.sg_work_template))
    /\ template_validate(_get_template(node.sg_work_template), node.sg_saveTo)

\* C3: accept() returns accepted=True if and only if some work path is
\* unpublished; it then stores the candidate list as work_paths and, as
\* to_publish, the first entry of the list, which is the unpublished work path
\* of the highest version; with no unpublished work path it returns
\* accepted=False.
C3_AcceptedIffUnpublished ==
    (result.call = "accept" /\ result.raised = "none") =>
        /\ Accepted <=> (SavePathValid /\ Unpublished # {})
        /\ Accepted =>
              /\ ItemName \in DOMAIN settings.node_settings
              /\ StoredSettings.work_paths = result.candidates
              /\ Range(StoredSettings.work_paths) = Unpublished
              /\ StoredSettings.to_publish = StoredSettings.work_paths[1]
              /\ \A w \in Unpublished :
                    PathVersion(w) <= PathVersion(StoredSettings.to_publish)
        /\ ~Accepted => result.returned \in {"rejected", "rejected, hidden"}

\* The save path is not a path of the (resolved) work template.
SavePathInvalid ==
    /\ ~IsNone(_get_template(node.sg_work_template))
    /\ ~template_validate(_get_template(node.sg_work_template), node.sg_saveTo)

\* C8: when the save path does not validate against the work template,
\* accept() returns accepted=False without reading the publish template name,
\* looking the publish template up or enumerating publish paths, and leaves
\* node_settings as it was.
C8_InvalidPathLeavesPublishTemplateAlone ==
    [][(accept /\ SavePathInvalid) =>
          /\ result'.returned = "rejected, hidden"
          /\ result'.touched = {}
          /\ ("publish_template" \in DOMAIN properties')
                = ("publish_template" \in DOMAIN properties)
          /\ settings'.node_settings = settings.node_settings]_vars

\* accept() has rejected an invalid save path while publish files of the node
\* were enumerated and on disk.
C8_Witness ==
    /\ SavePathInvalid
    /\ result.call = "accept"
    /\ result.message = "is not a valid path"
    /\ node.sg_publish_template = PublishTemplateName
    /\ enumerated.publish \cap disk # {}
    /\ enumerated.work # {}

\* C9: a second accept() with the same node parameters, enumeration and disk
\* has the outcome of the first: the same return value, the same candidates
\* and the same settings.
C9_AcceptTwiceSame ==
    [][(result.call = "accept" /\ accept) =>
          /\ result' = result
          /\ settings' = settings]_vars

\* accept() has stored a list of several work paths, in an order the
\* enumerator need not have returned them in.
C9_Witness ==
    /\ Accepted
    /\ Len(StoredSettings.work_paths) >= 2
    /\ enumerated.publish \cap disk # {}

\* Both templates are in item.properties and neither is None.
TemplatesStored ==
    /\ "work_template" \in DOMAIN properties
    /\ "publish_template" \in DOMAIN properties
    /\ ~IsNone(properties["work_template"])
    /\ ~IsNone(properties["publish_template"])

\* A to_publish path is stored for the node.
ToPublishStored == "to_publish" \in DOMAIN _get_item_settings(settings)

ToPublish == _get_item_settings(settings)["to_publish"]

\* The publish path of the stored to_publish path.
Destination ==
    apply_fields(properties["publish_template"],
                 get_fields(properties["work_template"], ToPublish))

\* C4: validate() returns True if and only if, when it runs, the stored
\* to_publish path is on disk, matches the work template, and its publish path
\* is not on disk; a to_publish path that is gone raises the TankError "no
\* longer exists", a publish path that is there raises the "already copied"
\* error.
C4_ValidateChecksDisk ==
    [][validate =>
          /\ (result'.returned = "True") <=>
                /\ TemplatesStored
                /\ ToPublishStored
                /\ ToPublish \in disk
                /\ template_validate(properties["work_template"], ToPublish)
                /\ Destination \notin disk
          /\ (TemplatesStored /\ ToPublishStored /\ ToPublish \notin disk) =>
                /\ result'.raised = "TankError"
                /\ result'.message = "no longer exists on disk"
          /\ (/\ TemplatesStored
              /\ ToPublishStored
              /\ ToPublish \in disk
              /\ template_validate(properties["work_template"], ToPublish)
              /\ Destination \in disk) =>
                /\ result'.raised = "IOError"
                /\ result'.message = "has already been copied to the publish location"]_vars

\* validate() has failed because the work file accept() chose was deleted
\* afterwards.
C4_Witness ==
    /\ result.call = "validate"
    /\ result.raised = "TankError"
    /\ result.message = "no longer exists on disk"
    /\ task = "accepted"
    /\ ToPublishStored
    /\ ToPublish \notin disk

\* C5: publish() never hands the item to the copy step while the item's
\* publish path is on disk.
C5_NeverCopiesOntoExisting ==
    ~(result.call = "publish" /\ result.copied_onto_existing)

\* C6: a validate() that fails leaves the settings object and item.properties
\* as they were.
C6_FailedValidateCommitsNothing ==
    [][(validate /\ result'.raised # "none") =>
          /\ settings' = settings
          /\ properties' = properties]_vars

\* A template name of the node is not in the configuration.
TemplateUnresolved ==
    \/ IsNone(_get_template(node.sg_work_template))
    \/ IsNone(_get_template(node.sg_publish_template))

\* C7: when a template of the node cannot be resolved, an error the plugin
\* raises is the TankError of validate(), and no handler fails before
\* validate().
C7_MissingTemplateIsTankError ==
    (TemplateUnresolved /\ result.raised # "none") =>
        /\ result.call = "validate"
        /\ result.raised = "TankError"

\* The value a handler missed in item.properties.
MissedProperty ==
    /\ result.raised = "KeyError"
    /\ result.message \in {"work_template", "publish_template", "publish_path"}

\* C10: validate() and publish() complete in any order of calls without
\* needing a value an earlier phase left outside the settings object.
C10_PhasesNeedOnlySettings ==
    result.call \in {"validate", "publish"} => ~MissedProperty

\* C10, amended: validate() called for an item accept() has accepted, and
\* publish() called for an item validate() has passed, miss no value of
\* item.properties; validate() and publish() called for an item with no
\* properties raise KeyError.
C10_PhasesNeedItemProperties ==
    [][/\ (validate /\ task \in {"accepted", "validated", "published"}) => ~MissedProperty'
       /\ (publish /\ task \in {"validated", "published"}) => ~MissedProperty'
       /\ ((validate \/ publish) /\ properties = EmptyDict) => MissedProperty']_vars

\* publish() has completed for an item that went through accept() and
\* validate().
C10_Witness ==
    /\ result.call = "publish"
    /\ result.raised = "none"
    /\ task = "published"
    /\ TemplatesStored
    /\ "publish_path" \in DOMAIN properties

\* What the settings widget is to give back for a displayed node: the work
\* paths last brought for it, and the operator's pick since then or else the
\* to_publish brought with them.
RoundTrip(n) ==
    [work_paths |-> supplied[n].work_paths,
     to_publish |-> IF chosen[n] # NoneValue THEN chosen[n] ELSE supplied[n].to_publish]

\* C11: get_ui_settings() returns, for every displayed node that was brought a
\* work_paths list and a to_publish of that list, the list last brought for
\* the node and, as to_publish, the operator's last pick since then, or the
\* to_publish brought when the operator picked nothing.
C11_UIRoundTrip ==
    [][get_ui_settings =>
          \A n \in Range(displayed) :
              supplied[n] # EmptyDict => ui_returned'.node_settings[n] = RoundTrip(n)]_vars

\* C12: within one accept() publish_template.get_fields is called at most
\* once for each publish path.
C12_GetFieldsOncePerPublishPath ==
    result.call = "accept" => get_fields_calls <= 1

====
